---- MODULE Spec2Model ----
(***************************************************************************)
(* Camera rig, idle-resume timer and model loading of the ddt-3d landing   *)
(* page scripts.                                                           *)
(*                                                                         *)
(* The repository holds four page scripts ("variants"):                    *)
(*   ObjMtl         src/unnamed/part_000      OBJ/MTL loader, 5000 ms      *)
(*   VerticalCustom src/script.js   1..243    own azimuth currentYRotation *)
(*   FreeOrbit      src/script.js 245..405    plain OrbitControls          *)
(*   VerticalClamp  src/script.js 407..603    'change' listener clamp      *)
(*                                                                         *)
(* Units: angles are in centiradians (0.01 rad), camera coordinates in     *)
(* hundredths of a world unit, times in milliseconds, pointer positions in *)
(* pixels.  Everything runs on the one JavaScript event loop, so every     *)
(* handler is one atomic action.                                           *)
(*                                                                         *)
(* OrbitControls is a third-party library: only what the scripts read and  *)
(* write of it is modelled (the autoRotate flag, the polar angle, the      *)
(* isUserInteracting property the scripts read but nothing ever sets).     *)
(***************************************************************************)
EXTENDS Integers, FiniteSets, Sequences, TLC

VARIABLES
    variant,            \* which page script is running
    autoRotate,         \* controls.autoRotate
    isInteracting,      \* let isInteracting (script.js:153, 526)
    currentYRotation,   \* let currentYRotation (script.js:97), centirad
    camX, camZ,         \* camera.position.x / .z, hundredths
    touchStartX,        \* let touchStartX (script.js:195), px
    touchCurrentX,      \* let touchCurrentX (script.js:196), px
    polarDev,           \* controls.getPolarAngle() - PI/2, centirad
    timers,             \* pending resume timers of the host: {[id, rem, by]}
    timeoutHandle,      \* autoRotateTimeout / interactionTimeout / touchTimeout
    mouse,              \* host: where the mouse button went down, or "up"
    touch,              \* host: where the active touch began, or "none"
    lastEvent,          \* history: the callback that ran last
    lastCleared,        \* history: who armed the timer the last clearTimeout removed
    idleBase,           \* history: azimuth when the last handler other than a frame ran
    idleFrames,         \* history: frames since then
    stage,              \* history: how far the run follows start, end, resume
    startedAfterFire,   \* history: a drag start came right after a timer fired, no frame yet
    gesturePhase,       \* history: "none", "gesture" (since gesturestart), "rearmed"
    sinceEnd,           \* history: ms since the last mouseup / touchend the canvas saw
    pendingFrames,      \* host: frame callbacks requested and not yet run
    loadStage,          \* "pending", "materials" (MTL done), "loaded" or "failed"
    bboxSize,           \* size of the loaded object's bounding box, <<x, y, z>>
    modelScale,         \* model.scale, uniform, as the fraction num / den
    modelInScene,       \* scene.add(model) has run
    bboxCenter,         \* centre of the loaded object's bounding box, <<x, y, z>>
    objectPosition,     \* history: position of the object as the loader delivered it
    modelPosition,      \* model.position, <<x, y, z>>
    indicator,          \* loading spinner / screen: "showing", "hiding", "hidden", "errorText"
    containerSize,      \* host: <<clientWidth, clientHeight>> of #canvas-container
    cameraAspect,       \* camera.aspect as the fraction num / den
    drawBuffer,         \* renderer size, <<width, height>>
    threeDefined,       \* host: the THREE global exists
    canvasPresent,      \* host: #webgl-canvas is in the document
    containerPresent,   \* host: #canvas-container is in the document
    initRun,            \* the page script has run
    started,            \* what the script has set up: renderer, controls, load, ...
    diagnostic,         \* "none", "logged" (console.error) or "uncaught" (TypeError)
    isLoading,          \* let isLoading (part_000:6)
    finishLoadingCalls, \* history: how many times finishLoading has run
    objLoadIssued,      \* history: objLoader.load has been called
    loadOutcome         \* history: "none", "mtlError", "objError" or "objSuccess"

vars == <<variant, autoRotate, isInteracting, currentYRotation, camX, camZ,
          touchStartX, touchCurrentX, polarDev, timers, timeoutHandle,
          mouse, touch, lastEvent, lastCleared, idleBase, idleFrames,
          stage, startedAfterFire, gesturePhase, sinceEnd, pendingFrames,
          loadStage, bboxSize, modelScale, modelInScene,
          bboxCenter, objectPosition, modelPosition, indicator,
          containerSize, cameraAspect, drawBuffer,
          threeDefined, canvasPresent, containerPresent, initRun, started,
          diagnostic, isLoading, finishLoadingCalls, objLoadIssued, loadOutcome>>

modelVars == <<bboxSize, modelScale, modelInScene, bboxCenter, objectPosition,
               modelPosition>>
progressVars == <<isLoading, finishLoadingCalls, objLoadIssued, loadOutcome>>
loadVars == <<loadStage, modelVars, indicator, progressVars>>
viewVars == <<containerSize, cameraAspect, drawBuffer>>
pageVars == <<threeDefined, canvasPresent, containerPresent, initRun, started,
              diagnostic>>
rigVars == <<variant, autoRotate, isInteracting, currentYRotation, camX, camZ,
             touchStartX, touchCurrentX, polarDev, timers, timeoutHandle,
             mouse, touch, lastEvent, lastCleared, idleBase, idleFrames, stage,
             startedAfterFire, gesturePhase, sinceEnd, pendingFrames>>
cameraVars == <<currentYRotation, camX, camZ>>
touchVars == <<touchStartX, touchCurrentX>>

ObjMtl == "ObjMtl"
VerticalCustom == "VerticalCustom"
FreeOrbit == "FreeOrbit"
VerticalClamp == "VerticalClamp"
Variants == {ObjMtl, VerticalCustom, FreeOrbit, VerticalClamp}
VerticalOnly == {VerticalCustom, VerticalClamp}

(***************************************************************************)
(* Bounds of the model.                                                    *)
(***************************************************************************)
MaxTimers == 2        \* pending timers the host is allowed to hold
MaxAngle == 12        \* |currentYRotation| explored, centirad
MaxIdleFrames == 2    \* frames explored between two handlers
TickMs == 1000        \* granularity of the passage of time
MaxBoxDim == 6        \* largest bounding-box dimension explored

BoxCenters == {<<0, 0, 0>>, <<1, 2, 3>>}         \* centres a bounding box can have
ObjectPositions == {<<0, 0, 0>>, <<1, 0, -1>>}   \* positions a loaded object can come with
ContainerSizes == {<<800, 600>>, <<600, 600>>, <<0, 0>>}   \* client sizes, px
InitialSize == <<800, 600>>         \* client size when the rig was set up
TouchXs == {0, 100}                 \* clientX of a touch, px
MouseDeltas == {-20, 0, 20}         \* clientX - canvas centre of a mouse move, px
PolarDevs == {0, 20, 40}  \* polar deviations a free orbit drag can produce

(***************************************************************************)
(* Program constants.                                                      *)
(***************************************************************************)
ResumeDelayObjMtl == 5000
ResumeDelayScript == 2000
AutoRotateSpeed == 2    \* script.js:94 overwrites the 3 of script.js:90
Radius == 5
PolarTolerance == 30
TargetSizeVerticalCustom == 45   \* 4.5, in tenths
TargetSizeFreeOrbit == 30        \* 3, in tenths
TargetSizeVerticalClamp == 45    \* 4.5, in tenths
FixedScaleObjMtl == 2

ResumeDelay(v) == IF v = ObjMtl THEN ResumeDelayObjMtl ELSE ResumeDelayScript

Abs(n) == IF n < 0 THEN -n ELSE n
Max2(a, b) == IF a >= b THEN a ELSE b

(***************************************************************************)
(* Math.sin / Math.cos on centiradians, scaled by 100 (Bhaskara's rational *)
(* approximation, reduced modulo 2*PI first, odd in its argument).         *)
(***************************************************************************)
PiC == 314
TwoPiC == 2 * PiC

SinHalfWave(x) == (400 * x * (PiC - x)) \div (((5 * PiC * PiC) \div 4) - x * (PiC - x))

Sin100(a) ==
    LET r == a % TwoPiC
    IN  IF r <= PiC THEN SinHalfWave(r) ELSE -SinHalfWave(r - PiC)

Cos100(a) == Sin100(a + (PiC \div 2))

\* camera.position.x = Math.sin(currentYRotation) * 5
PositionX(az) == Radius * Sin100(az)
\* camera.position.z = Math.cos(currentYRotation) * 5
PositionZ(az) == Radius * Cos100(az)

\* controls.isUserInteracting: read by the scripts, assigned nowhere, and no
\* property of OrbitControls: the read yields undefined, which is falsy.
controlsIsUserInteracting == FALSE

(***************************************************************************)
(* The host's timer table.                                                 *)
(***************************************************************************)
\* clearTimeout(handle)
ClearTimeoutForgotten(handle, ts) == ts
ClearTimeout(handle, ts) == {t \in ts : t.id # handle}

\* the id setTimeout returns
NextId(ts) == CHOOSE i \in 1..(Cardinality(ts) + 1) : \A t \in ts : t.id # i

\* clearTimeout(h); h = setTimeout(resume, delay)
ArmResume(by) ==
    LET kept == ClearTimeout(timeoutHandle, timers)
        gone == timers \ kept
        id == NextId(kept)
    IN  /\ Cardinality(kept) < MaxTimers
        /\ timers' = kept \cup {[id |-> id, rem |-> ResumeDelay(variant), by |-> by]}
        /\ timeoutHandle' = id
        /\ lastCleared' = IF gone = {} THEN "none" ELSE (CHOOSE t \in gone : TRUE).by

\* a handler that touches no timer
NoTimerChange ==
    /\ UNCHANGED <<timers, timeoutHandle>>
    /\ lastCleared' = "none"

Dragging == mouse = "canvas" \/ touch = "canvas"

\* "init" -> "started" (a drag start came first) -> "ended" (then its drag end)
\* -> "resumed" (then the timer fired, with no input in between); else "off"
StageAfter(name) ==
    CASE name \in {"mousedown", "touchstart"} ->
            IF stage = "init" THEN "started" ELSE "off"
      [] name \in {"mouseup", "touchend"} ->
            IF stage = "started" THEN "ended" ELSE "off"
      [] name = "fire" ->
            IF stage = "ended" THEN "resumed" ELSE "off"
      [] name \in {"touchmove", "move"} ->
            IF stage = "started" THEN stage ELSE "off"
      [] OTHER -> "off"

\* "gesture" from a gesturestart until the next mouseup / touchend arms a timer,
\* "rearmed" from then until that timer fires
GesturePhaseAfter(name) ==
    CASE name = "gesturestart" -> "gesture"
      [] name \in {"mouseup", "touchend"} /\ gesturePhase = "gesture" -> "rearmed"
      [] name = "fire" /\ gesturePhase = "rearmed" -> "none"
      [] OTHER -> gesturePhase

\* history bookkeeping of a handler other than a frame; no handler requests a frame
Handled(name) ==
    /\ lastEvent' = name
    /\ stage' = StageAfter(name)
    /\ idleBase' = currentYRotation'
    /\ idleFrames' = 0
    /\ startedAfterFire' = (name \in {"mousedown", "touchstart"} /\ lastEvent = "fire")
    /\ gesturePhase' = GesturePhaseAfter(name)
    /\ sinceEnd' = IF name \in {"mouseup", "touchend"} THEN 0 ELSE sinceEnd
    /\ UNCHANGED pendingFrames

\* width / height
AspectInverted(size) == [num |-> size[2], den |-> size[1]]
Aspect(size) == [num |-> size[1], den |-> size[2]]

\* what a page script sets up when it runs to its end
Everything == {"renderer", "controls", "load", "listeners", "loop"}

\* the state after the page script has run to its end
Init ==
    /\ variant \in Variants
    /\ autoRotate = TRUE
    /\ isInteracting = FALSE
    /\ currentYRotation = 0
    /\ camX = 0
    /\ camZ = 100 * Radius
    /\ touchStartX = 0
    /\ touchCurrentX = 0
    /\ polarDev = 0
    /\ timers = {}
    /\ timeoutHandle = 0
    /\ mouse = "up"
    /\ touch = "none"
    /\ lastEvent = "init"
    /\ lastCleared = "none"
    /\ idleBase = 0
    /\ idleFrames = 0
    /\ stage = "init"
    /\ startedAfterFire = FALSE
    /\ gesturePhase = "none"
    /\ sinceEnd = 0
    /\ pendingFrames = 1
    /\ loadStage = "pending"
    /\ bboxSize = <<>>
    /\ modelScale = [num |-> 1, den |-> 1]
    /\ modelInScene = FALSE
    /\ bboxCenter = <<>>
    /\ objectPosition = <<>>
    /\ modelPosition = <<>>
    /\ indicator = "showing"
    /\ containerSize = InitialSize
    /\ cameraAspect = Aspect(InitialSize)
    /\ drawBuffer = InitialSize
    /\ threeDefined = TRUE
    /\ canvasPresent = TRUE
    /\ containerPresent = TRUE
    /\ initRun = TRUE
    /\ started = Everything
    /\ diagnostic = "none"
    /\ isLoading = TRUE
    /\ finishLoadingCalls = 0
    /\ objLoadIssued = FALSE
    /\ loadOutcome = "none"

(***************************************************************************)
(* Drag start.                                                             *)
(***************************************************************************)
\* 'mousedown' on the canvas
MouseDown ==
    /\ mouse = "up"
    /\ mouse' = "canvas"
    /\ autoRotate' = IF variant = ObjMtl THEN FALSE ELSE autoRotate
    /\ isInteracting' = IF variant = VerticalClamp THEN TRUE ELSE isInteracting
    /\ currentYRotation' = IF variant = VerticalCustom THEN camX ELSE currentYRotation
    /\ NoTimerChange
    /\ UNCHANGED <<variant, camX, camZ, touchVars, polarDev, touch>>
    /\ Handled("mousedown")
    /\ UNCHANGED <<loadVars, viewVars, pageVars>>

\* 'touchstart' on the canvas
TouchStart ==
    /\ touch = "none"
    /\ touch' = "canvas"
    /\ \E x \in TouchXs :
         touchStartX' = IF variant = VerticalCustom THEN x ELSE touchStartX
    /\ autoRotate' = IF variant \in {ObjMtl, VerticalCustom} THEN FALSE ELSE autoRotate
    /\ isInteracting' = IF variant = VerticalClamp THEN TRUE ELSE isInteracting
    /\ NoTimerChange
    /\ UNCHANGED <<variant, cameraVars, touchCurrentX, polarDev, mouse>>
    /\ Handled("touchstart")
    /\ UNCHANGED <<loadVars, viewVars, pageVars>>

\* 'gesturestart' on the canvas (script.js:569)
GestureStart ==
    /\ variant = VerticalClamp
    /\ autoRotate' = FALSE
    /\ NoTimerChange
    /\ UNCHANGED <<variant, isInteracting, cameraVars, touchVars, polarDev, mouse, touch>>
    /\ Handled("gesturestart")
    /\ UNCHANGED <<loadVars, viewVars, pageVars>>

(***************************************************************************)
(* Drag end: arm the resume timer.                                         *)
(***************************************************************************)
\* 'mouseup' on the canvas (the button may have gone down anywhere)
MouseUp ==
    /\ mouse # "up"
    /\ mouse' = "up"
    /\ IF variant = FreeOrbit
       THEN NoTimerChange
       ELSE ArmResume("mouseup")
    /\ UNCHANGED <<variant, autoRotate, isInteracting, cameraVars, touchVars,
                   polarDev, touch>>
    /\ Handled("mouseup")
    /\ UNCHANGED <<loadVars, viewVars, pageVars>>

\* 'touchend' of a touch that began on the canvas; it bubbles to document
TouchEnd ==
    /\ touch = "canvas"
    /\ touch' = "none"
    /\ ArmResume("touchend")
    /\ UNCHANGED <<variant, autoRotate, isInteracting, cameraVars, touchVars,
                   polarDev, mouse>>
    /\ Handled("touchend")
    /\ UNCHANGED <<loadVars, viewVars, pageVars>>

(***************************************************************************)
(* Pointer events whose target is not the canvas.                          *)
(***************************************************************************)
MouseDownElsewhere ==
    /\ mouse = "up"
    /\ mouse' = "elsewhere"
    /\ NoTimerChange
    /\ UNCHANGED <<variant, autoRotate, isInteracting, cameraVars, touchVars,
                   polarDev, touch>>
    /\ Handled("other")
    /\ UNCHANGED <<loadVars, viewVars, pageVars>>

MouseUpElsewhere ==
    /\ mouse # "up"
    /\ mouse' = "up"
    /\ NoTimerChange
    /\ UNCHANGED <<variant, autoRotate, isInteracting, cameraVars, touchVars,
                   polarDev, touch>>
    /\ Handled("other")
    /\ UNCHANGED <<loadVars, viewVars, pageVars>>

TouchStartElsewhere ==
    /\ touch = "none"
    /\ touch' = "elsewhere"
    /\ NoTimerChange
    /\ UNCHANGED <<variant, autoRotate, isInteracting, cameraVars, touchVars,
                   polarDev, mouse>>
    /\ Handled("other")
    /\ UNCHANGED <<loadVars, viewVars, pageVars>>

\* only the document listener of script.js:368 hears it
TouchEndElsewhere ==
    /\ touch = "elsewhere"
    /\ touch' = "none"
    /\ IF variant = FreeOrbit THEN ArmResume("touchend") ELSE NoTimerChange
    /\ UNCHANGED <<variant, autoRotate, isInteracting, cameraVars, touchVars,
                   polarDev, mouse>>
    /\ Handled(IF variant = FreeOrbit THEN "touchend" ELSE "other")
    /\ UNCHANGED <<loadVars, viewVars, pageVars>>

(***************************************************************************)
(* Moves.                                                                  *)
(***************************************************************************)
\* currentYRotation = (deltaMove / 200)
MouseMoveAngle(deltaMove) == (100 * deltaMove) \div 200

\* 'mousemove' on the canvas (script.js:103)
MouseMove ==
    /\ \E deltaMove \in MouseDeltas :
         IF variant = VerticalCustom /\ controlsIsUserInteracting
         THEN /\ currentYRotation' = MouseMoveAngle(deltaMove)
              /\ camX' = PositionX(currentYRotation')
              /\ camZ' = PositionZ(currentYRotation')
         ELSE UNCHANGED cameraVars
    /\ NoTimerChange
    /\ UNCHANGED <<variant, autoRotate, isInteracting, touchVars, polarDev, mouse, touch>>
    /\ Handled("move")
    /\ UNCHANGED <<loadVars, viewVars, pageVars>>

\* delta = (touchCurrentX - touchStartX) / 50;  delta * 0.05
TouchMoveAngle(currentX, startX) == (5 * (currentX - startX)) \div 50

\* currentYRotation += delta * 0.05
TouchAzimuthNormalized(az, currentX, startX) ==
    (az + TouchMoveAngle(currentX, startX)) % TwoPiC
TouchAzimuth(az, currentX, startX) == az + TouchMoveAngle(currentX, startX)

\* 'touchmove' on the canvas (script.js:203)
TouchMove ==
    /\ touch = "canvas"
    /\ \E x \in TouchXs :
         IF variant = VerticalCustom
         THEN /\ touchCurrentX' = x
              /\ Abs(currentYRotation + TouchMoveAngle(x, touchStartX)) <= MaxAngle
              /\ currentYRotation' = TouchAzimuth(currentYRotation, x, touchStartX)
              /\ camX' = PositionX(currentYRotation')
              /\ camZ' = PositionZ(currentYRotation')
              /\ touchStartX' = x
         ELSE UNCHANGED <<cameraVars, touchVars>>
    /\ NoTimerChange
    /\ UNCHANGED <<variant, autoRotate, isInteracting, polarDev,
                   mouse, touch>>
    /\ Handled("touchmove")
    /\ UNCHANGED <<loadVars, viewVars, pageVars>>

\* the 'change' listener of script.js:481
ChangeListener(dev) ==
    IF Abs(dev) > PolarTolerance THEN 0 ELSE dev

\* a rotate drag handled by OrbitControls (enableRotate = true) moves the polar
\* angle and dispatches 'change'
OrbitDrag ==
    /\ variant \in VerticalOnly
    /\ Dragging
    /\ \E dev \in PolarDevs :
         polarDev' = IF variant = VerticalClamp THEN ChangeListener(dev) ELSE dev
    /\ NoTimerChange
    /\ UNCHANGED <<variant, autoRotate, isInteracting, cameraVars, touchVars, mouse, touch>>
    /\ Handled("move")
    /\ UNCHANGED <<loadVars, viewVars, pageVars>>

(***************************************************************************)
(* Time and the resume timer.                                              *)
(***************************************************************************)
Tick ==
    /\ \E t \in timers : t.rem > 0
    /\ timers' = {[t EXCEPT !.rem = Max2(0, t.rem - TickMs)] : t \in timers}
    /\ lastEvent' = "other"
    /\ UNCHANGED <<variant, autoRotate, isInteracting, cameraVars, touchVars,
                   polarDev, timeoutHandle, mouse, touch, idleBase, idleFrames,
                   stage, startedAfterFire, gesturePhase, pendingFrames>>
    /\ sinceEnd' = sinceEnd + TickMs
    /\ lastCleared' = "none"
    /\ UNCHANGED <<loadVars, viewVars, pageVars>>

\* the callback given to setTimeout
ResumeFire ==
    /\ \E t \in timers :
         /\ t.rem = 0
         /\ timers' = timers \ {t}
    /\ autoRotate' = TRUE
    /\ isInteracting' = IF variant = VerticalClamp THEN FALSE ELSE isInteracting
    /\ UNCHANGED <<variant, cameraVars, touchVars, polarDev, timeoutHandle,
                   mouse, touch>>
    /\ lastCleared' = "none"
    /\ Handled("fire")
    /\ UNCHANGED <<loadVars, viewVars, pageVars>>

(***************************************************************************)
(* The frame callback.                                                     *)
(***************************************************************************)
\* currentYRotation += controls.autoRotateSpeed * 0.01
FrameAzimuthTwice(az) == az + 2 * AutoRotateSpeed
FrameAzimuth(az) == az + AutoRotateSpeed

\* requestAnimationFrame(animate)
RequestAnimationFrameForgotten(pending) == pending
RequestAnimationFrame(pending) == pending + 1

\* animate() of script.js:155
FrameVerticalCustom ==
    /\ isInteracting' = IF controlsIsUserInteracting THEN TRUE ELSE FALSE
    /\ autoRotate' = IF controlsIsUserInteracting THEN FALSE ELSE autoRotate
    /\ IF autoRotate' /\ ~controlsIsUserInteracting
       THEN /\ Abs(currentYRotation + AutoRotateSpeed) <= MaxAngle
            /\ currentYRotation' = FrameAzimuth(currentYRotation)
            /\ camX' = PositionX(currentYRotation')
            /\ camZ' = PositionZ(currentYRotation')
       ELSE UNCHANGED cameraVars

\* a frame that switches auto-rotation back on
FrameOrbitResuming ==
    /\ isInteracting' = IF variant = VerticalClamp /\ controlsIsUserInteracting
                        THEN TRUE ELSE isInteracting
    /\ autoRotate' = ~controlsIsUserInteracting
    /\ UNCHANGED cameraVars

\* animate() of part_000:191, script.js:354 and script.js:528
FrameOrbit ==
    /\ isInteracting' = IF variant = VerticalClamp /\ controlsIsUserInteracting
                        THEN TRUE ELSE isInteracting
    /\ autoRotate' = IF variant # ObjMtl /\ controlsIsUserInteracting
                     THEN FALSE ELSE autoRotate
    /\ UNCHANGED cameraVars

Frame ==
    /\ idleFrames < MaxIdleFrames
    /\ pendingFrames > 0
    /\ pendingFrames' = RequestAnimationFrame(pendingFrames - 1)
    /\ IF variant = VerticalCustom THEN FrameVerticalCustom ELSE FrameOrbit
    /\ lastEvent' = "frame"
    /\ idleFrames' = idleFrames + 1
    /\ startedAfterFire' = FALSE
    /\ NoTimerChange
    /\ UNCHANGED <<variant, touchVars, polarDev, mouse, touch, idleBase, stage,
                   gesturePhase, sinceEnd>>
    /\ UNCHANGED <<loadVars, viewVars, pageVars>>

(***************************************************************************)
(* The window's 'resize' event.                                            *)
(***************************************************************************)
\* onWindowResize of part_000:204 returns early on a missing or empty container
ResizeIgnored(size) ==
    variant = ObjMtl /\ (~containerPresent \/ size[1] = 0 \/ size[2] = 0)

\* a resize handler that also switches auto-rotation back on and drops the timer
ResizeAndResume ==
    /\ \E size \in ContainerSizes :
         /\ containerSize' = size
         /\ IF ResizeIgnored(size)
            THEN UNCHANGED <<cameraAspect, drawBuffer>>
            ELSE /\ cameraAspect' = Aspect(size)
                 /\ drawBuffer' = size
    /\ autoRotate' = TRUE
    /\ timers' = {}
    /\ lastCleared' = "none"
    /\ UNCHANGED <<variant, isInteracting, cameraVars, touchVars,
                   polarDev, timeoutHandle, mouse, touch>>
    /\ Handled("resize")
    /\ UNCHANGED <<loadVars, pageVars>>

\* the 'resize' listener (part_000:204, script.js:237, 399, 597)
Resize ==
    /\ \E size \in ContainerSizes :
         /\ containerSize' = size
         /\ IF ResizeIgnored(size)
            THEN UNCHANGED <<cameraAspect, drawBuffer>>
            ELSE /\ cameraAspect' = Aspect(size)
                 /\ drawBuffer' = size
    /\ NoTimerChange
    /\ UNCHANGED <<variant, autoRotate, isInteracting, cameraVars, touchVars,
                   polarDev, mouse, touch>>
    /\ Handled("resize")
    /\ UNCHANGED <<loadVars, pageVars>>

Next ==
    \/ MouseDown
    \/ TouchStart
    \/ GestureStart
    \/ MouseUp
    \/ TouchEnd
    \/ MouseDownElsewhere
    \/ MouseUpElsewhere
    \/ TouchStartElsewhere
    \/ TouchEndElsewhere
    \/ MouseMove
    \/ TouchMove
    \/ OrbitDrag
    \/ Tick
    \/ ResumeFire
    \/ Frame

Spec == Init /\ [][Next]_vars

\* the rig with window resizes between the drag, timer and frame events
ResizeNext ==
    \/ Resize
    \/ MouseDown
    \/ TouchStart
    \/ GestureStart
    \/ MouseUp
    \/ TouchEnd
    \/ TouchMove
    \/ Tick
    \/ ResumeFire
    \/ Frame

SpecResize == Init /\ [][ResizeNext]_vars

(***************************************************************************)
(* Loading the model.                                                      *)
(***************************************************************************)
BoxSizes == (0..MaxBoxDim) \X (0..MaxBoxDim) \X (0..MaxBoxDim)

\* Math.max(size.x, size.y, size.z)
MaxDim(size) == Max2(size[1], Max2(size[2], size[3]))

TargetSize(v) ==
    CASE v = VerticalCustom -> TargetSizeVerticalCustom
      [] v = FreeOrbit -> TargetSizeFreeOrbit
      [] v = VerticalClamp -> TargetSizeVerticalClamp

\* scale = target / maxDim; a zero den is JavaScript's Infinity
UniformScaleOfWidth(target, size) == [num |-> target, den |-> 10 * size[1]]
UniformScale(target, size) == [num |-> target, den |-> 10 * MaxDim(size)]

\* a centering that overwrites the position: model.position.copy(center).negate()
PositionSet(pos, center) == <<-center[1], -center[2], -center[3]>>
\* model.position.sub(center) of script.js:129
PositionSub(pos, center) == <<pos[1] - center[1], pos[2] - center[2], pos[3] - center[3]>>

\* finishLoading() of part_000:178: the spinner fades out and is removed 300 ms later
FinishLoading == "hiding"
\* loadingManager.onLoad of script.js:10: the loading screen is hidden 500 ms later
ManagerOnLoad == "hiding"
\* loadingManager.onError of script.js:20: the loading screen shows the error text
ManagerOnError == "errorText"

\* a call of finishLoading() (part_000:178)
FinishLoadingRuns ==
    /\ isLoading' = FALSE
    /\ finishLoadingCalls' = finishLoadingCalls + 1
    /\ indicator' = FinishLoading

\* the onLoad callback of mtlLoader.load (part_000:131): it issues the OBJ load
MtlLoaded ==
    /\ variant = ObjMtl
    /\ loadStage = "pending"
    /\ loadStage' = "materials"
    /\ objLoadIssued' = TRUE
    /\ UNCHANGED <<modelVars, indicator, isLoading, finishLoadingCalls, loadOutcome>>
    /\ UNCHANGED <<rigVars, viewVars, pageVars>>

\* the onError callback of mtlLoader.load (part_000:155)
MtlError ==
    /\ variant = ObjMtl
    /\ loadStage = "pending"
    /\ loadStage' = "failed"
    /\ loadOutcome' = "mtlError"
    /\ UNCHANGED <<modelVars, objLoadIssued>>
    /\ FinishLoadingRuns
    /\ UNCHANGED <<rigVars, viewVars, pageVars>>

\* the onLoad callback of objLoader.load (part_000:136)
ObjLoaded ==
    /\ variant = ObjMtl
    /\ loadStage = "materials"
    /\ \E size \in BoxSizes, center \in BoxCenters, pos \in ObjectPositions :
         /\ bboxSize' = size
         /\ bboxCenter' = center
         /\ objectPosition' = pos
    /\ modelPosition' = <<0, 0, 0>>
    /\ modelScale' = [num |-> FixedScaleObjMtl, den |-> 1]
    /\ modelInScene' = TRUE
    /\ FinishLoadingRuns
    /\ loadStage' = "loaded"
    /\ loadOutcome' = "objSuccess"
    /\ UNCHANGED objLoadIssued
    /\ UNCHANGED <<rigVars, viewVars, pageVars>>

\* an onError callback that only logs
ObjErrorOnlyLogged ==
    /\ variant = ObjMtl
    /\ loadStage = "materials"
    /\ loadStage' = "failed"
    /\ loadOutcome' = "objError"
    /\ UNCHANGED <<modelVars, objLoadIssued, indicator, isLoading, finishLoadingCalls>>
    /\ UNCHANGED <<rigVars, viewVars, pageVars>>

\* the onError callback of objLoader.load (part_000:151)
ObjError ==
    /\ variant = ObjMtl
    /\ loadStage = "materials"
    /\ loadStage' = "failed"
    /\ loadOutcome' = "objError"
    /\ UNCHANGED <<modelVars, objLoadIssued>>
    /\ FinishLoadingRuns
    /\ UNCHANGED <<rigVars, viewVars, pageVars>>

\* the onLoad callback of loader.load (script.js:122, 324, 494)
GlbLoaded ==
    /\ variant # ObjMtl
    /\ loadStage = "pending"
    /\ \E size \in BoxSizes, center \in BoxCenters, pos \in ObjectPositions :
         /\ bboxSize' = size
         /\ bboxCenter' = center
         /\ objectPosition' = pos
         /\ modelPosition' = PositionSub(pos, center)
         /\ modelScale' = UniformScale(TargetSize(variant), size)
    /\ modelInScene' = TRUE
    /\ indicator' = ManagerOnLoad
    /\ loadStage' = "loaded"
    /\ UNCHANGED progressVars
    /\ UNCHANGED <<rigVars, viewVars, pageVars>>

\* the onError callback of loader.load (script.js:147, 348, 520)
GlbError ==
    /\ variant # ObjMtl
    /\ loadStage = "pending"
    /\ loadStage' = "failed"
    /\ UNCHANGED <<modelVars, progressVars>>
    /\ indicator' = ManagerOnError
    /\ UNCHANGED <<rigVars, viewVars, pageVars>>

\* the timeout of part_000:184 (display none) or script.js:11 (class hidden)
HideIndicator ==
    /\ indicator = "hiding"
    /\ indicator' = "hidden"
    /\ UNCHANGED <<loadStage, modelVars, progressVars>>
    /\ UNCHANGED <<rigVars, viewVars, pageVars>>

LoadNext ==
    \/ MtlLoaded
    \/ MtlError
    \/ ObjLoaded
    \/ ObjError
    \/ GlbLoaded
    \/ GlbError
    \/ HideIndicator

SpecLoad == Init /\ [][LoadNext]_vars

(***************************************************************************)
(* The page script from its first line: init() of part_000, the top level  *)
(* of each script of script.js.                                            *)
(***************************************************************************)
\* the document the script finds
PageInit ==
    /\ variant \in Variants
    /\ threeDefined \in BOOLEAN
    /\ canvasPresent \in BOOLEAN
    /\ containerPresent \in BOOLEAN
    /\ containerSize \in ContainerSizes
    /\ initRun = FALSE
    /\ started = {}
    /\ diagnostic = "none"
    /\ cameraAspect = [num |-> 1, den |-> 1]
    /\ drawBuffer = <<0, 0>>
    /\ autoRotate = FALSE
    /\ isInteracting = FALSE
    /\ currentYRotation = 0
    /\ camX = 0
    /\ camZ = 0
    /\ touchStartX = 0
    /\ touchCurrentX = 0
    /\ polarDev = 0
    /\ timers = {}
    /\ timeoutHandle = 0
    /\ mouse = "up"
    /\ touch = "none"
    /\ lastEvent = "init"
    /\ lastCleared = "none"
    /\ idleBase = 0
    /\ idleFrames = 0
    /\ stage = "init"
    /\ startedAfterFire = FALSE
    /\ gesturePhase = "none"
    /\ sinceEnd = 0
    /\ pendingFrames = 0
    /\ loadStage = "idle"
    /\ bboxSize = <<>>
    /\ modelScale = [num |-> 1, den |-> 1]
    /\ modelInScene = FALSE
    /\ bboxCenter = <<>>
    /\ objectPosition = <<>>
    /\ modelPosition = <<>>
    /\ indicator = "showing"
    /\ isLoading = TRUE
    /\ finishLoadingCalls = 0
    /\ objLoadIssued = FALSE
    /\ loadOutcome = "none"

\* the three early returns of init() (part_000:10, 19, 33), each after a console.error
InitRefuses ==
    \/ ~threeDefined
    \/ ~canvasPresent
    \/ ~containerPresent
    \/ containerSize[1] = 0
    \/ containerSize[2] = 0

\* set-up of renderer, camera, controls, load, listeners and the first animate()
StartScene ==
    /\ started' = Everything
    /\ cameraAspect' = Aspect(containerSize)
    /\ drawBuffer' = containerSize
    /\ autoRotate' = TRUE
    /\ camZ' = 100 * Radius
    /\ loadStage' = "pending"
    /\ pendingFrames' = RequestAnimationFrame(pendingFrames)

NothingStarted ==
    UNCHANGED <<started, cameraAspect, drawBuffer, autoRotate, camZ, loadStage,
                pendingFrames>>

\* init() of part_000:8
InitObjMtl ==
    IF InitRefuses
    THEN diagnostic' = "logged" /\ NothingStarted
    ELSE diagnostic' = "none" /\ StartScene

\* the top level of a script of script.js: container.clientWidth at line 32 (276,
\* 438) throws when the container is missing; nothing tests the size
InitScript ==
    IF ~containerPresent
    THEN diagnostic' = "uncaught" /\ NothingStarted
    ELSE diagnostic' = "none" /\ StartScene

RunInit ==
    /\ ~initRun
    /\ initRun' = TRUE
    /\ IF variant = ObjMtl THEN InitObjMtl ELSE InitScript
    /\ UNCHANGED <<variant, isInteracting, currentYRotation, camX, touchVars,
                   polarDev, timers, timeoutHandle, mouse, touch, lastEvent,
                   lastCleared, idleBase, idleFrames, stage, startedAfterFire,
                   gesturePhase, sinceEnd>>
    /\ UNCHANGED <<modelVars, indicator, progressVars>>
    /\ UNCHANGED <<containerSize, threeDefined, canvasPresent, containerPresent>>

PageNext ==
    \/ RunInit
    \/ LoadNext

SpecPage == PageInit /\ [][PageNext]_vars

(***************************************************************************)
(* The interaction modes of the design, read off the program's state.      *)
(***************************************************************************)
UserDragging == Dragging
AwaitingResume == ~Dragging /\ timers # {}
AutoRotating == ~Dragging /\ timers = {} /\ autoRotate

DragStarts == {"mousedown", "touchstart"}

(***************************************************************************)
(* C1: in every variant at most one resume timer is pending at any         *)
(* instant, because arming on a drag end first cancels the timer armed     *)
(* before, whichever end event armed it.                                   *)
(***************************************************************************)
C1_AtMostOneResumeTimer == Cardinality(timers) <= 1

\* a touchend has just cancelled the timer a mouseup armed, and armed its own
C1_RearmedAcrossEventTypes ==
    /\ lastEvent = "touchend"
    /\ lastCleared = "mouseup"
    /\ Cardinality(timers) = 1

(***************************************************************************)
(* C2: a drag start on the canvas while a resume timer is pending cancels  *)
(* that timer and enters User-Dragging, so no resume timer fires while the *)
(* drag is in progress.                                                    *)
(***************************************************************************)
C2_DragStartCancelsResume ==
    /\ lastEvent \in DragStarts => UserDragging /\ timers = {}
    /\ lastEvent = "fire" => ~Dragging

(***************************************************************************)
(* C3: from the initial state a drag start gives User-Dragging with the    *)
(* auto-rotate flag false, the drag end that follows gives                 *)
(* Idle-Paused-AwaitingResume with a timer armed, and the fire of that     *)
(* timer gives Idle-AutoRotating with the flag true.                       *)
(***************************************************************************)
C3_EndToEnd ==
    /\ stage = "started" => UserDragging /\ ~autoRotate
    /\ stage = "ended" /\ ~Dragging => AwaitingResume
    /\ stage = "resumed" /\ ~Dragging => AutoRotating

(***************************************************************************)
(* C4: after a mousedown or touchstart on the canvas no frame applies the  *)
(* automatic azimuth increment until the drag ends.                        *)
(***************************************************************************)
C4_NoAutoIncrementWhileDragging ==
    [][Dragging /\ lastEvent' = "frame" => currentYRotation' = currentYRotation]_vars

(***************************************************************************)
(* C5: while a resume timer is pending the auto-rotate flag is false and   *)
(* no frame advances the azimuth, however the drag-end handler was         *)
(* reached.                                                                *)
(***************************************************************************)
C5_FrozenWhilePending ==
    [][/\ timers' # {} => ~autoRotate'
       /\ timers # {} /\ lastEvent' = "frame" => currentYRotation' = currentYRotation]_vars

(***************************************************************************)
(* C6: with auto-rotation on and no handler but N frames having run, the   *)
(* azimuth of the VerticalCustom script is congruent modulo 2*PI to the    *)
(* azimuth before those frames plus N times autoRotateSpeed * 0.01.        *)
(***************************************************************************)
C6_AzimuthAfterNFrames ==
    variant = VerticalCustom /\ autoRotate =>
        (currentYRotation - (idleBase + idleFrames * AutoRotateSpeed)) % TwoPiC = 0

\* two frames in a row in Idle-AutoRotating
C6_TwoIdleFrames ==
    /\ variant = VerticalCustom
    /\ AutoRotating
    /\ lastEvent = "frame"
    /\ idleFrames = 2
    /\ currentYRotation # idleBase

(***************************************************************************)
(* C7: in the vertical-only variants the polar angle read at every frame   *)
(* is exactly PI/2.                                                        *)
(***************************************************************************)
C7_PolarClampedEveryFrame ==
    variant \in VerticalOnly /\ lastEvent = "frame" => polarDev = 0

(***************************************************************************)
(* C8: the camera position is always x = sin(azimuth) * radius,            *)
(* z = cos(azimuth) * radius of the stored azimuth.                        *)
(***************************************************************************)
C8_PositionFollowsAzimuth ==
    variant = VerticalCustom =>
        /\ camX = PositionX(currentYRotation)
        /\ camZ = PositionZ(currentYRotation)

(***************************************************************************)
(* C9: the stored azimuth stays in [0, 2*PI) after every operation.        *)
(***************************************************************************)
C9_AzimuthNormalized ==
    variant = VerticalCustom => 0 <= currentYRotation /\ currentYRotation < TwoPiC

(***************************************************************************)
(* C9, amended: the stored azimuth is not reduced modulo 2*PI.  A frame    *)
(* with auto-rotation on adds exactly autoRotateSpeed * 0.01 and a touch   *)
(* move adds exactly (dx / 50) * 0.05, so the value can leave [0, 2*PI);   *)
(* the position those two handlers set is the periodic function of it.    *)
(***************************************************************************)
C9_AzimuthAdditive ==
    [][variant = VerticalCustom =>
         /\ lastEvent' = "frame" /\ autoRotate' =>
               /\ currentYRotation' = currentYRotation + AutoRotateSpeed
               /\ camX' = PositionX(currentYRotation')
         /\ lastEvent' = "touchmove" =>
               /\ 10 * (currentYRotation' - currentYRotation) = touchCurrentX' - touchStartX
               /\ camX' = PositionX(currentYRotation')]_vars

\* a touch move to the left has taken the azimuth below zero
C9_NegativeAzimuth ==
    /\ variant = VerticalCustom
    /\ lastEvent = "touchmove"
    /\ currentYRotation < 0

(***************************************************************************)
(* C10: on load completion the model's uniform scale is targetSize over    *)
(* the largest bounding-box dimension, in every variant, the OBJ/MTL one   *)
(* included (its target being one of the sizes the scripts configure).     *)
(***************************************************************************)
C10_ScaleIsTargetOverMaxDim ==
    loadStage = "loaded" /\ MaxDim(bboxSize) > 0 =>
        \E target \in {TargetSizeVerticalCustom, TargetSizeFreeOrbit, TargetSizeVerticalClamp} :
            /\ variant # ObjMtl => target = TargetSize(variant)
            /\ modelScale.num * 10 * MaxDim(bboxSize) = target * modelScale.den

(***************************************************************************)
(* C10, amended: in the three GLB scripts the uniform scale is the target  *)
(* size (4.5, 3 and 4.5) over the largest bounding-box dimension; the      *)
(* OBJ/MTL script computes no bounding box and sets the fixed scale 2.     *)
(***************************************************************************)
C10_ScalePerVariant ==
    loadStage = "loaded" /\ MaxDim(bboxSize) > 0 =>
        IF variant = ObjMtl
        THEN modelScale.num = 2 * modelScale.den
        ELSE /\ modelScale.den # 0
             /\ modelScale.num * 10 * Max2(bboxSize[1], Max2(bboxSize[2], bboxSize[3]))
                    = TargetSize(variant) * modelScale.den

\* size (2, 4, 6) with target 3 gives 0.5
C10_HalfScale ==
    /\ variant = FreeOrbit
    /\ loadStage = "loaded"
    /\ bboxSize = <<2, 4, 6>>
    /\ 2 * modelScale.num = modelScale.den

(***************************************************************************)
(* C11: on load completion the model's position is the negation of the     *)
(* bounding-box centre, in every variant and whatever position the loaded  *)
(* object came with.                                                       *)
(***************************************************************************)
C11_PositionIsMinusCenter ==
    loadStage = "loaded" =>
        modelPosition = <<-bboxCenter[1], -bboxCenter[2], -bboxCenter[3]>>

(***************************************************************************)
(* C11, amended: in the three GLB scripts the position after centering is  *)
(* the position the object came with minus the bounding-box centre (the    *)
(* negation of the centre when it came at the origin); the OBJ/MTL script  *)
(* computes no centre and sets the position to (0, 0, 0).                  *)
(***************************************************************************)
C11_PositionPerVariant ==
    loadStage = "loaded" =>
        IF variant = ObjMtl
        THEN modelPosition = <<0, 0, 0>>
        ELSE \A i \in 1..3 : modelPosition[i] + bboxCenter[i] = objectPosition[i]

\* centre (1, 2, 3) gives position (-1, -2, -3)
C11_CenteredAtOrigin ==
    /\ variant = FreeOrbit
    /\ loadStage = "loaded"
    /\ objectPosition = <<0, 0, 0>>
    /\ bboxCenter = <<1, 2, 3>>
    /\ modelPosition = <<-1, -2, -3>>

(***************************************************************************)
(* C14: when the asset load fails, at any stage and in every variant, the  *)
(* loading indicator is left showing or replaced by error text; it is not  *)
(* hidden as on success.                                                   *)
(***************************************************************************)
C14_ErrorStateSurfaced ==
    loadStage = "failed" => indicator \in {"showing", "errorText"}

(***************************************************************************)
(* C15: a bounding box whose largest dimension is zero never leads to a    *)
(* division by zero: the scale applied to the model is finite.             *)
(***************************************************************************)
C15_ScaleFinite ==
    loadStage = "loaded" => modelScale.den # 0

(***************************************************************************)
(* C12: when a drag starts after the resume timer has fired and before the *)
(* next frame, that next frame finds autoRotate false and adds no          *)
(* automatic increment to the azimuth.                                     *)
(***************************************************************************)
C12_DragStartBeatsFrame ==
    [][startedAfterFire /\ lastEvent' = "frame"
         => ~autoRotate' /\ currentYRotation' = currentYRotation]_vars

(***************************************************************************)
(* C13: from a gesture start on, auto-rotation is off and stays off until  *)
(* a timer armed by a later end event fires; a timer that was already      *)
(* pending at the gesture start does not switch it back on.                *)
(***************************************************************************)
C13_OffDuringGesture ==
    gesturePhase = "gesture" => ~autoRotate

(***************************************************************************)
(* C18: between frames exactly one frame callback is pending: every frame  *)
(* callback schedules exactly one next frame, whatever the state.          *)
(***************************************************************************)
C18_OneFramePending ==
    pendingFrames = 1

\* frames have run back to back, in a drag, with a resume timer pending
C18_FramesKeepComing ==
    /\ lastEvent = "frame"
    /\ idleFrames = MaxIdleFrames
    /\ pendingFrames = 1
    /\ Dragging
    /\ timers # {}

(***************************************************************************)
(* C19: autoRotate goes from false to true only in the callback of a       *)
(* resume timer; no input handler and no frame sets it true.               *)
(***************************************************************************)
C19_OnlyTimerResumes ==
    [][~autoRotate /\ autoRotate' => lastEvent' = "fire"]_vars

\* a drag start switched auto-rotation off and the timer of its drag end has
\* just switched it back on
C19_ResumedByTimer ==
    /\ variant = ObjMtl
    /\ stage = "resumed"
    /\ lastEvent = "fire"
    /\ autoRotate

(***************************************************************************)
(* C20: the resume timer fires no earlier than one full delay after the    *)
(* most recent drag end (mouseup or touchend on the canvas).               *)
(***************************************************************************)
C20_FullDelayAfterLastEnd ==
    lastEvent = "fire" =>
        sinceEnd >= (IF variant = ObjMtl THEN ResumeDelayObjMtl ELSE ResumeDelayScript)

(***************************************************************************)
(* C16: when a mount point (the canvas or the container) is missing, or    *)
(* the container has zero size, the script stops at once with a diagnostic *)
(* and the scene never starts: no renderer, no controls, no load, no       *)
(* listeners, no render loop.                                              *)
(***************************************************************************)
C16_FailsFastOnBadMount ==
    (/\ initRun
     /\ \/ variant = ObjMtl /\ ~canvasPresent
        \/ ~containerPresent
        \/ containerSize[1] = 0
        \/ containerSize[2] = 0)
    => /\ diagnostic # "none"
       /\ started = {}
       /\ pendingFrames = 0
       /\ loadStage = "idle"

(***************************************************************************)
(* C17: a resize refreshes only the camera aspect and the draw-buffer      *)
(* size; the azimuth, the autoRotate flag, the mode and the pending resume *)
(* timer are as before.                                                    *)
(***************************************************************************)
C17_ResizeOnlyRefreshesView ==
    [][lastEvent' = "resize" =>
         /\ UNCHANGED <<currentYRotation, camX, camZ, polarDev>>
         /\ UNCHANGED <<autoRotate, isInteracting, mouse, touch>>
         /\ UNCHANGED <<timers, timeoutHandle, pendingFrames>>
         /\ UNCHANGED <<loadVars, pageVars>>
         /\ IF variant = ObjMtl /\ 0 \in {containerSize'[1], containerSize'[2]}
            THEN UNCHANGED <<cameraAspect, drawBuffer>>
            ELSE /\ drawBuffer' = containerSize'
                 /\ cameraAspect'.num = containerSize'[1]
                 /\ cameraAspect'.den = containerSize'[2]]_vars

\* a resize to a square container came during a drag with auto-rotation off and
\* a resume timer pending
C17_ResizedMidDrag ==
    /\ lastEvent = "resize"
    /\ Dragging
    /\ ~autoRotate
    /\ timers # {}
    /\ drawBuffer = <<600, 600>>
    /\ cameraAspect = [num |-> 600, den |-> 600]

(***************************************************************************)
(* C21: in the OBJ/MTL script, whatever the outcome of the load (MTL       *)
(* error, OBJ error, OBJ success), finishLoading has run exactly once and  *)
(* isLoading is false once the load is over, and neither before; the OBJ   *)
(* load is issued only after the MTL load has succeeded; the model is set  *)
(* and in the scene exactly on OBJ success.                                *)
(***************************************************************************)
C21_ObjMtlLoadOutcomes ==
    variant = ObjMtl =>
        /\ loadOutcome \in {"mtlError", "objError", "objSuccess"}
             => finishLoadingCalls = 1 /\ ~isLoading
        /\ loadOutcome = "none"
             => finishLoadingCalls = 0 /\ isLoading
        /\ objLoadIssued <=> (loadStage = "materials"
                                \/ loadOutcome \in {"objError", "objSuccess"})
        /\ loadOutcome = "mtlError" => ~objLoadIssued
        /\ modelInScene <=> loadOutcome = "objSuccess"
        /\ (modelPosition # <<>>) <=> loadOutcome = "objSuccess"

\* the MTL load succeeded, the OBJ load failed, and the spinner has gone
C21_ObjFailedAfterMtl ==
    /\ variant = ObjMtl
    /\ loadOutcome = "objError"
    /\ objLoadIssued
    /\ finishLoadingCalls = 1
    /\ ~isLoading
    /\ ~modelInScene
    /\ indicator = "hidden"

====
